---- MODULE Spec2Model ----
(***************************************************************************)
(* river-monitor (src/main.py): the per-symbol Series Store, the rule      *)
(* engine (compute_signal_on_series, compute_pullback_on_series,           *)
(* compute_realtime_signal), the collector loop and the replay of the      *)
(* persisted log (load_history).  One symbol is modelled: symbols share no *)
(* state.                                                                  *)
(*                                                                         *)
(* Numbers.  The program computes in binary floating point; the model      *)
(* computes the same expressions exactly.  Prices and open interest are    *)
(* integers, funding rates are integers in units of 10^-5, and a quotient  *)
(* the code forms with "/" is kept as a fraction [num, den] and compared   *)
(* by cross multiplication.  Every exchange reading is a multiple of 12,   *)
(* so the mean over 1..4 exchanges is an integer.  Rounding of floats is   *)
(* outside the model.                                                      *)
(***************************************************************************)
EXTENDS Integers, Sequences, FiniteSets, TLC

\* ---------------------------------------------------------------- config
REFRESH_INTERVAL == 10

\* Retention horizon in hours.  The program has 24 (8640 points); the model
\* keeps the formula of MAX_POINTS and shortens the horizon.
MAX_HOURS == 1

MAX_POINTS == (3600 * MAX_HOURS) \div REFRESH_INTERVAL

\* SIGNAL_CONFIG.  Funding thresholds in units of 10^-5, ratio thresholds in
\* units of 10^-3 (RATIO_DEN).
funding_strong == -2000

funding_warn == -1200

oi_drop_pct == -60

price_break_pct == -10

cooldown_sec == 900

RATIO_DEN == 1000

\* literals of the rule engine
MIN_POINTS == 60

PULLBACK_MIN_POINTS == 120

WINDOW_SEC == 1800

SHORT_WINDOW_SEC == 600

REBOUND_PCT == 8

NEAR_VWAP_PCT == 3

OI_HOLD_PCT == -10

SIGNALS_MAXLEN == 500

SLEEP_SEC == 60

SYMBOL == "RIVERUSDT"

\* EXCHANGE_FUNCS, in the dict's iteration order
EXCHANGE_ORDER == <<"binance", "bybit", "okx", "bitget">>

EXCHANGE_FUNCS == {EXCHANGE_ORDER[k] : k \in 1..Len(EXCHANGE_ORDER)}

\* ---------------------------------------------------------------- utils
Frac(n, d) == [num |-> n, den |-> d]

\* f <= p / RATIO_DEN, for a fraction with a non-zero denominator
FracLeq(f, p) ==
    IF f.den > 0 THEN f.num * RATIO_DEN <= p * f.den
                 ELSE f.num * RATIO_DEN >= p * f.den

\* f >= p / RATIO_DEN
FracGeq(f, p) ==
    IF f.den > 0 THEN f.num * RATIO_DEN >= p * f.den
                 ELSE f.num * RATIO_DEN <= p * f.den

Abs(x) == IF x < 0 THEN -x ELSE x

Min(a, b) == IF a < b THEN a ELSE b

RECURSIVE SumRange(_, _, _)
\* sum(s[lo..hi]), split in halves so that the recursion stays shallow
SumRange(s, lo, hi) ==
    IF lo > hi THEN 0
    ELSE IF lo = hi THEN s[lo]
    ELSE LET mid == (lo + hi) \div 2
         IN SumRange(s, lo, mid) + SumRange(s, mid + 1, hi)

\* mean(xs): sum(xs) / len(xs), and 0 for the empty list
mean(xs) ==
    IF Len(xs) = 0 THEN Frac(0, 1) ELSE Frac(SumRange(xs, 1, Len(xs)), Len(xs))

\* the float a quotient evaluates to, for the exact quotients of the model
Value(f) == f.num \div f.den

\* xs[-k] of a Python list with len(xs) >= k
At(xs, k) == xs[Len(xs) - k + 1]

\* xs[-k:]: the last k entries, the whole list when it is shorter
LastN(xs, k) ==
    IF Len(xs) <= k THEN xs ELSE SubSeq(xs, Len(xs) - k + 1, Len(xs))

\* a list instead of a deque: nothing is ever dropped
DequeAppend_unbounded(dq, x, m) == Append(dq, x)

\* deque(maxlen=m).append(x)
DequeAppend(dq, x, m) ==
    IF Len(dq) >= m THEN Append(Tail(dq), x) ELSE Append(dq, x)

\* slice_deque(dq, n) for n >= 0: list(dq)[-n:] if dq else []
slice_deque(dq, n) ==
    IF Len(dq) = 0 THEN <<>>
    ELSE IF n = 0 THEN dq
    ELSE LastN(dq, n)

\* ---------------------------------------------------------------- rules
\* what an evaluation returns: out is "none" (None), "signal" (the dict) or
\* "raise" (an exception leaves the function); lst is state["last_signal_ts"]
\* as the call leaves it
NoSignal == [level |-> "NONE"]

Ret(out, sig, lst) == [out |-> out, sig |-> sig, lst |-> lst]

\* the dict both rule functions return
SignalEvent(st, level, idx, price_now, funding_now, oi_change, vwap) ==
    [ts |-> st.ts[idx + 1], level |-> level, price |-> price_now,
     funding |-> funding_now, oi_change |-> oi_change, vwap |-> vwap,
     index |-> idx]

window == WINDOW_SEC \div REFRESH_INTERVAL

short_window == SHORT_WINDOW_SEC \div REFRESH_INTERVAL

\* (now - then) / then as the code writes it inline, then # 0
Change(now, then) == Frac(now - then, then)

\* (price_now - vwap) / vwap for vwap = num / den, num # 0
Deviation(price_now, vwap) ==
    Frac(price_now * vwap.den - vwap.num, vwap.num)

\* lines 182-184: oi_change of the primary rules
PrimaryOiChange(ois) ==
    LET oi_prev == At(ois, window)
    IN IF oi_prev # 0 THEN Change(ois[Len(ois)], oi_prev) ELSE Frac(0, 1)

\* line 192 divides by vwap without a guard
PrimaryRaises(st) ==
    /\ Len(st.price_avg) >= MIN_POINTS
    /\ Len(st.oi_avg) > window
    /\ mean(LastN(st.price_avg, window)).num = 0

\* the warn rules tried before the strong ones
PrimaryLevel_warn_first(st) ==
    LET prices == st.price_avg
        fundings == st.funding_avg
        ois == st.oi_avg
        funding_now == fundings[Len(fundings)]
        price_now == prices[Len(prices)]
        funding_is_strong == funding_now <= funding_strong
        funding_is_warn == funding_now <= funding_warn
        funding_long_strong == funding_now >= -funding_strong
        funding_long_warn == funding_now >= -funding_warn
        oi_change == PrimaryOiChange(ois)
        oi_break == FracLeq(oi_change, oi_drop_pct)
        oi_rise == FracGeq(oi_change, -oi_drop_pct)
        vwap == mean(LastN(prices, window))
        price_break == FracLeq(Deviation(price_now, vwap), price_break_pct)
        price_rise == FracGeq(Deviation(price_now, vwap), -price_break_pct)
    IN IF funding_is_warn /\ oi_break THEN "PREPARE_SHORT"
       ELSE IF funding_is_strong /\ oi_break /\ price_break THEN "STRONG_SHORT"
       ELSE IF funding_long_warn /\ oi_rise THEN "PREPARE_LONG"
       ELSE IF funding_long_strong /\ oi_rise /\ price_rise THEN "STRONG_LONG"
       ELSE "NONE"

\* lines 177-210: the level the if/elif chain selects, "NONE" for its else
PrimaryLevel(st) ==
    LET prices == st.price_avg
        fundings == st.funding_avg
        ois == st.oi_avg
        funding_now == fundings[Len(fundings)]
        price_now == prices[Len(prices)]
        funding_is_strong == funding_now <= funding_strong
        funding_is_warn == funding_now <= funding_warn
        funding_long_strong == funding_now >= -funding_strong
        funding_long_warn == funding_now >= -funding_warn
        oi_change == PrimaryOiChange(ois)
        oi_break == FracLeq(oi_change, oi_drop_pct)
        oi_rise == FracGeq(oi_change, -oi_drop_pct)
        vwap == mean(LastN(prices, window))
        price_break == FracLeq(Deviation(price_now, vwap), price_break_pct)
        price_rise == FracGeq(Deviation(price_now, vwap), -price_break_pct)
    IN IF funding_is_strong /\ oi_break /\ price_break THEN "STRONG_SHORT"
       ELSE IF funding_is_warn /\ oi_break THEN "PREPARE_SHORT"
       ELSE IF funding_long_strong /\ oi_rise /\ price_rise THEN "STRONG_LONG"
       ELSE IF funding_long_warn /\ oi_rise THEN "PREPARE_LONG"
       ELSE "NONE"

\* the cooldown taken for minutes
InCooldown_minutes(now, lst) == now - lst < cooldown_sec \div 60

\* the cooldown test both rule functions make
InCooldown(now, lst) == now - lst < cooldown_sec

compute_signal_on_series(st, now) ==
    LET prices == st.price_avg
        ois == st.oi_avg
        lst == st.last_signal_ts
    IN IF Len(prices) < MIN_POINTS THEN Ret("none", NoSignal, lst)
       ELSE IF ~(Len(ois) > window) THEN Ret("none", NoSignal, lst)
       ELSE IF PrimaryRaises(st) THEN Ret("raise", NoSignal, lst)
       ELSE IF InCooldown(now, lst) THEN Ret("none", NoSignal, lst)
       ELSE LET level == PrimaryLevel(st)
            IN IF level = "NONE" THEN Ret("none", NoSignal, lst)
               ELSE Ret("signal",
                        SignalEvent(st, level, Len(prices) - 1,
                                    prices[Len(prices)],
                                    st.funding_avg[Len(st.funding_avg)],
                                    PrimaryOiChange(ois),
                                    mean(LastN(prices, window))),
                        now)

\* lines 242-246 divide by prices[-short_window], vwap_30 and
\* ois[-short_window] without a guard
PullbackRaises(st) ==
    /\ Len(st.price_avg) >= PULLBACK_MIN_POINTS
    /\ \/ At(st.price_avg, short_window) = 0
       \/ mean(LastN(st.price_avg, window)).num = 0
       \/ At(st.oi_avg, short_window) = 0

\* lines 238-278: "PULLBACK_SHORT", "PULLBACK_LONG" or "NONE"
PullbackLevel(st) ==
    LET prices == st.price_avg
        fundings == st.funding_avg
        ois == st.oi_avg
        price_now == prices[Len(prices)]
        funding_now == fundings[Len(fundings)]
        oi_now == ois[Len(ois)]
        vwap_30 == mean(LastN(prices, window))
        \* price_now < vwap_30 and price_now > vwap_30, vwap_30 = num / den
        trend_down == price_now * vwap_30.den < vwap_30.num
        trend_up == price_now * vwap_30.den > vwap_30.num
        rebound == FracGeq(Change(price_now, At(prices, short_window)),
                           REBOUND_PCT)
        near_vwap ==
            FracLeq(Frac(Abs(price_now * vwap_30.den - vwap_30.num),
                         vwap_30.num), NEAR_VWAP_PCT)
        funding_rebound ==
            At(fundings, short_window) < funding_now /\ funding_now < 0
        oi_change == Change(oi_now, At(ois, short_window))
        oi_hold == FracGeq(oi_change, OI_HOLD_PCT)
    IN IF trend_down /\ rebound /\ near_vwap /\ funding_rebound /\ oi_hold
       THEN "PULLBACK_SHORT"
       ELSE IF trend_up /\ rebound /\ near_vwap /\ funding_rebound /\ oi_hold
       THEN "PULLBACK_LONG"
       ELSE "NONE"

compute_pullback_on_series(st, now) ==
    LET prices == st.price_avg
        lst == st.last_signal_ts
    IN IF Len(prices) < PULLBACK_MIN_POINTS THEN Ret("none", NoSignal, lst)
       ELSE IF PullbackRaises(st) THEN Ret("raise", NoSignal, lst)
       ELSE IF InCooldown(now, lst) THEN Ret("none", NoSignal, lst)
       ELSE LET level == PullbackLevel(st)
            IN IF level = "NONE" THEN Ret("none", NoSignal, lst)
               ELSE Ret("signal",
                        SignalEvent(st, level, Len(prices) - 1,
                                    prices[Len(prices)],
                                    st.funding_avg[Len(st.funding_avg)],
                                    Change(st.oi_avg[Len(st.oi_avg)],
                                           At(st.oi_avg, short_window)),
                                    mean(LastN(prices, window))),
                        now)

\* sig1 is evaluated first and sets last_signal_ts; sig2 is evaluated on the
\* state sig1 left; an exception of either leaves the function
compute_realtime_signal(st, now) ==
    LET sig1 == compute_signal_on_series(st, now)
    IN IF sig1.out = "raise" THEN sig1
       ELSE LET sig2 == compute_pullback_on_series(
                            [st EXCEPT !.last_signal_ts = sig1.lst], now)
            IN IF sig2.out = "raise" THEN sig2
               ELSE IF sig2.out = "signal" THEN sig2
               ELSE Ret(sig1.out, sig1.sig, sig2.lst)

\* ---------------------------------------------------------------- state
VARIABLES
    ts, price_avg, funding_avg, oi_avg,   \* state["ts"], state["*_avg"]
    price_ex, funding_ex, oi_ex,          \* state["*_ex"][exchange]
    signals, last_signal_ts,              \* state["signals"], ["last_signal_ts"]
    disk,                                 \* the lines of data/<symbol>.jsonl
    pc,                                   \* "boot", "replay", "live", "dead"
    row_i,                                \* load_history: the next row of rows
    clock,                                \* time.time(), in seconds
    mkt,                                  \* what the exchanges answer now
    cycles, events, restarts,             \* counters that bound the model
    emit_clock,                           \* now_ts() of each entry of signals
    unsaved,                              \* points appended but not persisted
    last,                                 \* what the last step did
    before,                               \* the state a restart discarded
    task,                                 \* the collector thread inside a cycle
    api                                   \* the thread that serves api_state

store == <<ts, price_avg, funding_avg, oi_avg, price_ex, funding_ex, oi_ex>>

vars == <<ts, price_avg, funding_avg, oi_avg, price_ex, funding_ex, oi_ex,
          signals, last_signal_ts, disk, pc, row_i, clock, mkt,
          cycles, events, restarts, emit_clock, unsaved, last, before,
          task, api>>

\* the state dict, as the rule functions read it
State ==
    [ts |-> ts, price_avg |-> price_avg, funding_avg |-> funding_avg,
     oi_avg |-> oi_avg, price_ex |-> price_ex, funding_ex |-> funding_ex,
     oi_ex |-> oi_ex, last_signal_ts |-> last_signal_ts]

\* lines 45-57: the state load_history starts from
EmptyState ==
    [ts |-> <<>>, price_avg |-> <<>>, funding_avg |-> <<>>, oi_avg |-> <<>>,
     price_ex |-> [ex \in EXCHANGE_FUNCS |-> <<>>],
     funding_ex |-> [ex \in EXCHANGE_FUNCS |-> <<>>],
     oi_ex |-> [ex \in EXCHANGE_FUNCS |-> <<>>],
     last_signal_ts |-> 0]

\* the exchanges of a snapshot, in the order of its items()
Present(snap) == SelectSeq(EXCHANGE_ORDER, LAMBDA ex : ex \in DOMAIN snap)

\* a reading of 0 entered for every exchange that did not answer
Metric_zero_for_missing(snap, key) ==
    [j \in 1..Len(EXCHANGE_ORDER) |->
        IF EXCHANGE_ORDER[j] \in DOMAIN snap
        THEN snap[EXCHANGE_ORDER[j]][key] ELSE 0]

\* the list prices / fundings / ois that the loop over snap.items() builds
Metric(snap, key) ==
    LET present == Present(snap)
    IN [j \in 1..Len(present) |-> snap[present[j]][key]]

\* one deque of state["*_ex"] after the loop over snap.items()
AppendEx(dqs, snap, key) ==
    [ex \in EXCHANGE_FUNCS |->
        IF ex \in DOMAIN snap
        THEN DequeAppend(dqs[ex], snap[ex][key], MAX_POINTS)
        ELSE dqs[ex]]

\* the timestamp pushed only when every exchange answered
AppendSnapshot_ts_if_complete(st, snap, snapshot_ts) ==
    [st EXCEPT
        !.price_ex = AppendEx(st.price_ex, snap, "price"),
        !.funding_ex = AppendEx(st.funding_ex, snap, "funding"),
        !.oi_ex = AppendEx(st.oi_ex, snap, "oi"),
        !.price_avg = DequeAppend(st.price_avg,
                                  Value(mean(Metric(snap, "price"))), MAX_POINTS),
        !.funding_avg = DequeAppend(st.funding_avg,
                                    Value(mean(Metric(snap, "funding"))), MAX_POINTS),
        !.oi_avg = DequeAppend(st.oi_avg,
                               Value(mean(Metric(snap, "oi"))), MAX_POINTS),
        !.ts = IF DOMAIN snap = EXCHANGE_FUNCS
               THEN DequeAppend(st.ts, snapshot_ts, MAX_POINTS)
               ELSE st.ts]

\* lines 74-86 and 303-315: the appends of one snapshot
AppendSnapshot(st, snap, snapshot_ts) ==
    [st EXCEPT
        !.price_ex = AppendEx(st.price_ex, snap, "price"),
        !.funding_ex = AppendEx(st.funding_ex, snap, "funding"),
        !.oi_ex = AppendEx(st.oi_ex, snap, "oi"),
        !.price_avg = DequeAppend(st.price_avg,
                                  Value(mean(Metric(snap, "price"))), MAX_POINTS),
        !.funding_avg = DequeAppend(st.funding_avg,
                                    Value(mean(Metric(snap, "funding"))), MAX_POINTS),
        !.oi_avg = DequeAppend(st.oi_avg,
                               Value(mean(Metric(snap, "oi"))), MAX_POINTS),
        !.ts = DequeAppend(st.ts, snapshot_ts, MAX_POINTS)]

\* ---------------------------------------------------------------- persistence
\* a line of the log is a JSON document, a blank line or text json.loads rejects
dumps(record) == [kind |-> "json", doc |-> record]

\* persist(): the record and the line appended to the file
persist(lines, snapshot, snapshot_ts) ==
    Append(lines, dumps([ts |-> snapshot_ts, symbol |-> SYMBOL, data |-> snapshot]))

\* line 65: the lines with l.strip(); json.loads raises on any that is not JSON
NonBlank(lines) == SelectSeq(lines, LAMBDA l : l.kind # "blank")

LoadsRaises(lines) == \E k \in 1..Len(lines) : lines[k].kind = "garbage"

Rows(lines) ==
    LET kept == NonBlank(lines) IN [k \in 1..Len(kept) |-> kept[k].doc]

None == 0 - 1

\* lines 70-81 raise KeyError on a row without "data", on a reading without
\* one of the three metrics and on an exchange EXCHANGE_FUNCS does not name
RowRaises(row) ==
    \/ "data" \notin DOMAIN row
    \/ \E ex \in DOMAIN row.data :
          \/ ex \notin EXCHANGE_FUNCS
          \/ ~({"price", "funding", "oi"} \subseteq DOMAIN row.data[ex])

RowTs(row) == IF "ts" \in DOMAIN row THEN row.ts ELSE None

\* ---------------------------------------------------------------- environment
\* bounds of the model
MaxEvents == 2

MaxCycles == 200

MoveEvery == 60

CapEvents == 2

RestartEvery == 66

MaxRestarts == 1

BootCycles == 3

MaxBootLines == 2

CapCycles == 365

CapMoveEvery == 180

START_CLOCK == 1700000000

Reading(funding, price, oi) == [funding |-> funding, price |-> price, oi |-> oi]

\* the exchanges disagree a little; the differences cancel over all four
BASIS == [ex \in EXCHANGE_FUNCS |->
            CASE ex = "bybit" -> 12 [] ex = "okx" -> 0 - 12 [] OTHER -> 0]

Skewed(funding, price, oi) ==
    [ex \in EXCHANGE_FUNCS |->
        Reading(funding + BASIS[ex], price + BASIS[ex], oi + 2 * BASIS[ex])]

Flat(funding, price, oi) ==
    [ex \in EXCHANGE_FUNCS |-> Reading(funding, price, oi)]

\* what every exchange would answer, per market condition
MARKET ==
    [A |-> Skewed(0 - 2400, 1200, 1200),   \* calm, funding very negative
     B |-> Skewed(0 - 2400, 1176, 1080),   \* price -2%, open interest -10%
     C |-> Skewed(0 - 1440, 1190, 1080),   \* rebound, funding recovering
     L |-> Skewed(2400, 1224, 1320),       \* the mirror image of B
     Z |-> Flat(0 - 2400, 0, 0)]           \* price and open interest 0

MARKETS == DOMAIN MARKET

\* the exchanges that answer in a cycle with failures
OUTAGES == {{}, {"binance", "bybit"}}

\* what one poll cycle meets: the market, the exchanges that answer and
\* whether the write of persist() succeeds.  Off the nominal input the market
\* moves, exchanges fail or the write fails, at most maxEvents times and only
\* in a cycle whose number is a multiple of moveEvery.
Inputs(maxEvents, moveEvery) ==
    {[mkt |-> mkt, up |-> EXCHANGE_FUNCS, persist_ok |-> TRUE]}
    \cup
    IF events < maxEvents /\ cycles > 0 /\ cycles % moveEvery = 0
    THEN {[mkt |-> m, up |-> EXCHANGE_FUNCS, persist_ok |-> TRUE] :
              m \in MARKETS \ {mkt}}
         \cup {[mkt |-> mkt, up |-> u, persist_ok |-> TRUE] : u \in OUTAGES}
         \cup {[mkt |-> mkt, up |-> EXCHANGE_FUNCS, persist_ok |-> FALSE]}
    ELSE {}

\* the test of line 301 left out
SnapshotTruthy_always(snapshot) == TRUE

\* line 301: "if snapshot:", a dict is true when it has an entry
SnapshotTruthy(snapshot) == DOMAIN snapshot # {}

\* an exception that reaches line 324 ends the collector thread
AfterCycle_uncaught(raised) == IF raised THEN "dead" ELSE "live"

\* lines 292, 324-327: "except Exception" catches whatever the cycle raised,
\* the thread sleeps and the while loop goes on
AfterCycle(raised) == "live"

Nominal(inp) ==
    inp.mkt = mkt /\ inp.up = EXCHANGE_FUNCS /\ inp.persist_ok

Step(kind, up, persisted, out, lst_before, now, len_before) ==
    [kind |-> kind, up |-> up, persisted |-> persisted, out |-> out,
     lst_before |-> lst_before, now |-> now, len_before |-> len_before]

SetStore(st) ==
    /\ ts' = st.ts
    /\ price_avg' = st.price_avg
    /\ funding_avg' = st.funding_avg
    /\ oi_avg' = st.oi_avg
    /\ price_ex' = st.price_ex
    /\ funding_ex' = st.funding_ex
    /\ oi_ex' = st.oi_ex

\* lines 320-321 and 89-90: the signal, if any, goes to the log
LogSignal(sig, now) ==
    /\ signals' = IF sig.out = "signal"
                  THEN DequeAppend(signals, sig.sig, SIGNALS_MAXLEN)
                  ELSE signals
    /\ emit_clock' = IF sig.out = "signal"
                     THEN DequeAppend(emit_clock, now, SIGNALS_MAXLEN)
                     ELSE emit_clock
    /\ last_signal_ts' = sig.lst

\* ---------------------------------------------------------------- threads
\* The collector of a symbol is one thread, api_state runs on a thread of the
\* web server.  A thread switch can fall between any two statements; one
\* deque.append and one list(dq)[-n:] are atomic.

\* the collector is not inside the appends of a cycle
TaskIdle == [pc |-> 0, up |-> {}, mkt |-> "A", persist_ok |-> TRUE]

\* the JSON object api_state builds, before its first read
EmptyResponse ==
    [ts |-> <<>>, price_avg |-> <<>>, funding_avg |-> <<>>, oi_avg |-> <<>>,
     price_ex |-> [ex \in EXCHANGE_FUNCS |-> <<>>],
     funding_ex |-> [ex \in EXCHANGE_FUNCS |-> <<>>],
     oi_ex |-> [ex \in EXCHANGE_FUNCS |-> <<>>],
     signals |-> <<>>]

\* no request is being served
ApiIdle == [pc |-> 0, points |-> 0, served |-> 0, resp |-> EmptyResponse]

\* line 553: the default of the range parameter
DEFAULT_RANGE == 86400

\* the values of ?range= a request carries
RANGES == {0, 2 * REFRESH_INTERVAL, DEFAULT_RANGE}

\* the reads of lines 559-566, in the order the dict display evaluates them:
\* four avg reads, three times one read per exchange, then the signals
API_READS == 4 + 3 * Len(EXCHANGE_ORDER) + 1

\* bounds of the runs with a concurrent query
QueryCycles == 2

QueryEvents == 1

QueryMoveEvery == 1

MaxQueries == 1

\* ---------------------------------------------------------------- actions
\* start_symbol: load_history up to its loop over rows (lines 45-67)
Boot ==
    /\ pc = "boot"
    /\ SetStore(EmptyState)
    /\ signals' = <<>>
    /\ emit_clock' = <<>>
    /\ last_signal_ts' = 0
    /\ unsaved' = 0
    /\ row_i' = 1
    /\ pc' = IF LoadsRaises(disk) \/ Len(NonBlank(disk)) = 0
             THEN "live" ELSE "replay"
    /\ last' = Step("boot", {}, FALSE, "none", 0, clock, 0)
    /\ UNCHANGED <<disk, clock, mkt, cycles, events, restarts, before,
                   task, api>>

\* load_history: one iteration of the loop over rows (lines 69-90); an
\* exception leaves load_history and start_symbol, and the process ends
ReplayRow ==
    /\ pc = "replay"
    /\ LET rows == Rows(disk)
           row == rows[row_i]
       IN IF RowRaises(row)
          THEN /\ pc' = "dead"
               /\ last' = Step("replay", {}, FALSE, "raise", last_signal_ts,
                               clock, Len(ts))
               /\ UNCHANGED <<store, signals, emit_clock, last_signal_ts, row_i>>
          ELSE LET appended == AppendSnapshot(State, row.data, RowTs(row))
                   sig == compute_signal_on_series(appended, clock)
               IN /\ last' = Step("replay", DOMAIN row.data, FALSE, sig.out,
                                  last_signal_ts, clock, Len(ts))
                  /\ IF sig.out = "raise"
                     THEN /\ pc' = "dead"
                          /\ UNCHANGED <<store, signals, emit_clock,
                                         last_signal_ts, row_i>>
                     ELSE /\ SetStore(appended)
                          /\ LogSignal(sig, clock)
                          /\ row_i' = row_i + 1
                          /\ pc' = IF row_i = Len(rows) THEN "live" ELSE "replay"
    /\ UNCHANGED <<disk, clock, mkt, cycles, events, restarts, unsaved, before,
                   task, api>>

\* collector: one iteration of its loop (lines 292-327)
Collector(maxEvents, maxCycles, moveEvery) ==
    /\ pc = "live"
    /\ cycles < maxCycles
    /\ \E inp \in Inputs(maxEvents, moveEvery) :
          LET snapshot_ts == clock
              snapshot == [ex \in inp.up |-> MARKET[inp.mkt][ex]]
              appended == AppendSnapshot(State, snapshot, snapshot_ts)
              now == clock
              sig == compute_realtime_signal(appended, now)
          IN /\ mkt' = inp.mkt
             /\ events' = IF Nominal(inp) THEN events ELSE events + 1
             /\ IF ~SnapshotTruthy(snapshot)
                THEN \* line 301: nothing answered
                     /\ last' = Step("cycle", {}, FALSE, "skipped",
                                     last_signal_ts, now, Len(ts))
                     /\ pc' = AfterCycle(FALSE)
                     /\ UNCHANGED <<store, signals, emit_clock, last_signal_ts,
                                    disk, unsaved>>
                ELSE IF ~inp.persist_ok
                THEN \* persist raises: line 324 catches, lines 319-322 are skipped
                     /\ SetStore(appended)
                     /\ unsaved' = unsaved + 1
                     /\ last' = Step("cycle", inp.up, FALSE, "skipped",
                                     last_signal_ts, now, Len(ts))
                     /\ pc' = AfterCycle(TRUE)
                     /\ UNCHANGED <<signals, emit_clock, last_signal_ts, disk>>
                ELSE /\ SetStore(appended)
                     /\ disk' = persist(disk, snapshot, snapshot_ts)
                     /\ LogSignal(sig, now)
                     /\ last' = Step("cycle", inp.up, TRUE, sig.out,
                                     last_signal_ts, now, Len(ts))
                     /\ pc' = AfterCycle(sig.out = "raise")
                     /\ UNCHANGED unsaved
    /\ cycles' = cycles + 1
    /\ clock' = clock + SLEEP_SEC
    /\ UNCHANGED <<row_i, restarts, before, task, api>>

\* the process is stopped and started again: memory is lost, the log stays.
\* A restart counts among the events of a run.
Restart(maxEvents, every) ==
    /\ pc = "live"
    /\ restarts < MaxRestarts
    /\ events < maxEvents
    /\ cycles > 0
    /\ cycles % every = 0
    /\ before' = [valid |-> TRUE, state |-> State, signals |-> signals,
                  unsaved |-> unsaved]
    /\ pc' = "boot"
    /\ restarts' = restarts + 1
    /\ events' = events + 1
    /\ last' = Step("restart", {}, FALSE, "none", last_signal_ts, clock, Len(ts))
    /\ UNCHANGED <<store, signals, emit_clock, last_signal_ts, disk, row_i,
                   clock, mkt, cycles, unsaved, task, api>>

\* ---- the same loop and api_state, statement by statement
\* the snapshot the collector holds while task.pc > 0
TaskSnapshot == [ex \in task.up |-> MARKET[task.mkt][ex]]

\* collector, lines 293-301: the exchanges are asked; with no answer at all
\* the cycle ends in the sleep of line 327
CollectorPoll(maxEvents, maxCycles, moveEvery) ==
    /\ pc = "live"
    /\ task.pc = 0
    /\ cycles < maxCycles
    /\ \E inp \in Inputs(maxEvents, moveEvery) :
          LET snapshot == [ex \in inp.up |-> MARKET[inp.mkt][ex]]
          IN /\ mkt' = inp.mkt
             /\ events' = IF Nominal(inp) THEN events ELSE events + 1
             /\ IF ~SnapshotTruthy(snapshot)
                THEN /\ last' = Step("cycle", {}, FALSE, "skipped",
                                     last_signal_ts, clock, Len(ts))
                     /\ cycles' = cycles + 1
                     /\ clock' = clock + SLEEP_SEC
                     /\ UNCHANGED task
                ELSE /\ task' = [pc |-> 1, up |-> inp.up, mkt |-> inp.mkt,
                                 persist_ok |-> inp.persist_ok]
                     /\ UNCHANGED <<last, cycles, clock>>
    /\ UNCHANGED <<store, signals, emit_clock, last_signal_ts, disk, unsaved,
                   pc, row_i, restarts, before, api>>

\* collector, lines 303-315: one append.  For the k exchanges of the
\* snapshot, statements 1..3k are the appends of lines 308-310, exchange by
\* exchange; statements 3k+1..3k+4 are those of lines 312-315.
CollectorAppend ==
    /\ pc = "live"
    /\ LET snapshot == TaskSnapshot
           present == Present(snapshot)
           k == Len(present)
           j == task.pc
       IN /\ j \in 1..(3 * k + 4)
          /\ IF j <= 3 * k
             THEN LET ex == present[(j - 1) \div 3 + 1]
                      v == snapshot[ex]
                      key == (j - 1) % 3
                  IN /\ price_ex' = IF key = 0
                                    THEN [price_ex EXCEPT ![ex] =
                                            DequeAppend(@, v.price, MAX_POINTS)]
                                    ELSE price_ex
                     /\ funding_ex' = IF key = 1
                                      THEN [funding_ex EXCEPT ![ex] =
                                              DequeAppend(@, v.funding, MAX_POINTS)]
                                      ELSE funding_ex
                     /\ oi_ex' = IF key = 2
                                 THEN [oi_ex EXCEPT ![ex] =
                                         DequeAppend(@, v.oi, MAX_POINTS)]
                                 ELSE oi_ex
                     /\ UNCHANGED <<ts, price_avg, funding_avg, oi_avg>>
             ELSE /\ price_avg' = IF j = 3 * k + 1
                                  THEN DequeAppend(price_avg,
                                           Value(mean(Metric(snapshot, "price"))),
                                           MAX_POINTS)
                                  ELSE price_avg
                  /\ funding_avg' = IF j = 3 * k + 2
                                    THEN DequeAppend(funding_avg,
                                             Value(mean(Metric(snapshot, "funding"))),
                                             MAX_POINTS)
                                    ELSE funding_avg
                  /\ oi_avg' = IF j = 3 * k + 3
                               THEN DequeAppend(oi_avg,
                                        Value(mean(Metric(snapshot, "oi"))),
                                        MAX_POINTS)
                               ELSE oi_avg
                  /\ ts' = IF j = 3 * k + 4
                           THEN DequeAppend(ts, clock, MAX_POINTS)
                           ELSE ts
                  /\ UNCHANGED <<price_ex, funding_ex, oi_ex>>
          /\ task' = [task EXCEPT !.pc = j + 1]
    /\ UNCHANGED <<signals, emit_clock, last_signal_ts, disk, pc, row_i, clock,
                   mkt, cycles, events, restarts, unsaved, last, before, api>>

\* collector, lines 317-327: persist, the rule evaluation, the signal log and
\* the sleep
CollectorFinish ==
    /\ pc = "live"
    /\ task.pc = 3 * Cardinality(task.up) + 5
    /\ LET now == clock
           sig == compute_realtime_signal(State, now)
       IN IF ~task.persist_ok
          THEN /\ unsaved' = unsaved + 1
               /\ last' = Step("cycle", task.up, FALSE, "skipped",
                               last_signal_ts, now, Len(ts))
               /\ UNCHANGED <<signals, emit_clock, last_signal_ts, disk>>
          ELSE /\ disk' = persist(disk, TaskSnapshot, clock)
               /\ LogSignal(sig, now)
               /\ last' = Step("cycle", task.up, TRUE, sig.out,
                               last_signal_ts, now, Len(ts))
               /\ UNCHANGED unsaved
    /\ task' = TaskIdle
    /\ cycles' = cycles + 1
    /\ clock' = clock + SLEEP_SEC
    /\ UNCHANGED <<store, pc, row_i, mkt, events, restarts, before, api>>

\* api_state, lines 548-557: a request arrives; the server runs once
\* start_symbol has returned
ApiRequest ==
    /\ pc = "live"
    /\ api.pc \in {0, API_READS + 1}
    /\ api.served < MaxQueries
    /\ \E range_sec \in RANGES :
          api' = [pc |-> 1, points |-> range_sec \div REFRESH_INTERVAL,
                  served |-> api.served + 1, resp |-> EmptyResponse]
    /\ UNCHANGED <<store, signals, emit_clock, last_signal_ts, disk, pc, row_i,
                   clock, mkt, cycles, events, restarts, unsaved, last, before,
                   task>>

\* api_state, lines 558-567: one read; after the last the response is returned
ApiRead ==
    /\ api.pc \in 1..API_READS
    /\ LET n == api.pc
           e == Len(EXCHANGE_ORDER)
           ex == EXCHANGE_ORDER[((n - 5) % e) + 1]
           r == api.resp
           resp2 ==
               IF n = 1 THEN [r EXCEPT !.ts = slice_deque(ts, api.points)]
               ELSE IF n = 2
               THEN [r EXCEPT !.price_avg = slice_deque(price_avg, api.points)]
               ELSE IF n = 3
               THEN [r EXCEPT !.funding_avg = slice_deque(funding_avg, api.points)]
               ELSE IF n = 4
               THEN [r EXCEPT !.oi_avg = slice_deque(oi_avg, api.points)]
               ELSE IF n <= 4 + e
               THEN [r EXCEPT !.price_ex[ex] = slice_deque(price_ex[ex], api.points)]
               ELSE IF n <= 4 + 2 * e
               THEN [r EXCEPT !.funding_ex[ex] =
                                  slice_deque(funding_ex[ex], api.points)]
               ELSE IF n <= 4 + 3 * e
               THEN [r EXCEPT !.oi_ex[ex] = slice_deque(oi_ex[ex], api.points)]
               ELSE [r EXCEPT !.signals = signals]
       IN api' = [api EXCEPT !.pc = n + 1, !.resp = resp2]
    /\ UNCHANGED <<store, signals, emit_clock, last_signal_ts, disk, pc, row_i,
                   clock, mkt, cycles, events, restarts, unsaved, last, before,
                   task>>

\* ---------------------------------------------------------------- specifications
InitWith(lines, market, used) ==
    /\ ts = <<>> /\ price_avg = <<>> /\ funding_avg = <<>> /\ oi_avg = <<>>
    /\ price_ex = [ex \in EXCHANGE_FUNCS |-> <<>>]
    /\ funding_ex = [ex \in EXCHANGE_FUNCS |-> <<>>]
    /\ oi_ex = [ex \in EXCHANGE_FUNCS |-> <<>>]
    /\ signals = <<>>
    /\ emit_clock = <<>>
    /\ last_signal_ts = 0
    /\ disk = lines
    /\ pc = "boot"
    /\ row_i = 1
    /\ clock = START_CLOCK
    /\ mkt = market
    /\ cycles = 0
    /\ events = used
    /\ restarts = 0
    /\ unsaved = 0
    /\ last = Step("init", {}, FALSE, "none", 0, START_CLOCK, 0)
    /\ before = [valid |-> FALSE]
    /\ task = TaskIdle
    /\ api = ApiIdle

\* no log yet; the market is calm, or price and open interest read 0
Init ==
    \/ InitWith(<<>>, "A", 0)
    \/ InitWith(<<>>, "Z", 1)

Next ==
    \/ Boot
    \/ ReplayRow
    \/ Collector(MaxEvents, MaxCycles, MoveEvery)
    \/ Restart(MaxEvents, RestartEvery)

Spec == Init /\ [][Next]_vars

\* long runs, up to and beyond the capacity of the deques
NextCap ==
    \/ Boot
    \/ ReplayRow
    \/ Collector(CapEvents, CapCycles, CapMoveEvery)
    \/ Restart(CapEvents, CapCycles)

SpecCap == Init /\ [][NextCap]_vars

\* a request served while the collector runs, statement by statement
NextQuery ==
    \/ Boot
    \/ CollectorPoll(QueryEvents, QueryCycles, QueryMoveEvery)
    \/ CollectorAppend
    \/ CollectorFinish
    \/ ApiRequest
    \/ ApiRead

SpecQuery == Init /\ [][NextQuery]_vars

\* a record persist() wrote in the calm market
GoodRow(t, up) ==
    [ts |-> t, symbol |-> SYMBOL, data |-> [ex \in up |-> MARKET["A"][ex]]]

\* ---- api_state on a quiet store: slice_deque on stores of every length up
\* to MaxSliceLen, for every requested count up to one more than that
MaxSliceLen == 4

SliceRanges == {REFRESH_INTERVAL * n : n \in 0..(MaxSliceLen + 1)}

\* the store after m cycles of the calm market, every exchange answering
NominalStore(m) ==
    LET snap == MARKET["A"]
    IN [ts |-> [k \in 1..m |-> START_CLOCK + SLEEP_SEC * (k - 1)],
        price_avg |-> [k \in 1..m |-> Value(mean(Metric(snap, "price")))],
        funding_avg |-> [k \in 1..m |-> Value(mean(Metric(snap, "funding")))],
        oi_avg |-> [k \in 1..m |-> Value(mean(Metric(snap, "oi")))],
        price_ex |-> [ex \in EXCHANGE_FUNCS |-> [k \in 1..m |-> snap[ex].price]],
        funding_ex |-> [ex \in EXCHANGE_FUNCS |-> [k \in 1..m |-> snap[ex].funding]],
        oi_ex |-> [ex \in EXCHANGE_FUNCS |-> [k \in 1..m |-> snap[ex].oi]],
        last_signal_ts |-> 0]

\* a request for range_sec arrives after m such cycles
InitSlice ==
    \E m \in 0..MaxSliceLen, range_sec \in SliceRanges :
        LET st == NominalStore(m)
        IN /\ ts = st.ts
           /\ price_avg = st.price_avg
           /\ funding_avg = st.funding_avg
           /\ oi_avg = st.oi_avg
           /\ price_ex = st.price_ex
           /\ funding_ex = st.funding_ex
           /\ oi_ex = st.oi_ex
           /\ signals = <<>>
           /\ emit_clock = <<>>
           /\ last_signal_ts = 0
           /\ disk = [k \in 1..m |-> dumps(GoodRow(st.ts[k], EXCHANGE_FUNCS))]
           /\ pc = "live"
           /\ row_i = 1
           /\ clock = START_CLOCK + SLEEP_SEC * m
           /\ mkt = "A"
           /\ cycles = m
           /\ events = 0
           /\ restarts = 0
           /\ unsaved = 0
           /\ last = IF m = 0
                     THEN Step("boot", {}, FALSE, "none", 0, START_CLOCK, 0)
                     ELSE Step("cycle", EXCHANGE_FUNCS, TRUE, "none", 0,
                               START_CLOCK + SLEEP_SEC * (m - 1), m - 1)
           /\ before = [valid |-> FALSE]
           /\ task = TaskIdle
           /\ api = [pc |-> 1, points |-> range_sec \div REFRESH_INTERVAL,
                     served |-> 1, resp |-> EmptyResponse]

NextSlice == ApiRead

SpecSlice == InitSlice /\ [][NextSlice]_vars

\* the lines a log may hold when the process starts
BOOT_LINES ==
    {dumps(GoodRow(START_CLOCK - 120, EXCHANGE_FUNCS)),
     dumps(GoodRow(START_CLOCK - 60, {"binance", "bybit"})),
     [kind |-> "blank"],
     [kind |-> "garbage"],
     \* a record without "data"
     dumps([ts |-> START_CLOCK - 90, symbol |-> SYMBOL]),
     \* a reading without "oi"
     dumps([ts |-> START_CLOCK - 90, symbol |-> SYMBOL,
            data |-> [ex \in {"binance"} |-> [funding |-> 0 - 2400, price |-> 1200]]]),
     \* an exchange EXCHANGE_FUNCS does not name
     dumps([ts |-> START_CLOCK - 90, symbol |-> SYMBOL,
            data |-> [ex \in {"kraken"} |-> Reading(0 - 2400, 1200, 1200)]])}

RECURSIVE LinesUpTo(_)
LinesUpTo(n) ==
    IF n = 0 THEN {<<>>}
    ELSE LET shorter == LinesUpTo(n - 1)
         IN shorter \cup {Append(l, x) : l \in shorter, x \in BOOT_LINES}

InitBoot == \E lines \in LinesUpTo(MaxBootLines) : InitWith(lines, "A", 0)

NextBoot ==
    \/ Boot
    \/ ReplayRow
    \/ Collector(0, BootCycles, MoveEvery)

SpecBoot == InitBoot /\ [][NextBoot]_vars

\* ---------------------------------------------------------------- properties
\* the last step was a live cycle that reached the rule evaluation (line 319)
EvaluatedCycle == last.kind = "cycle" /\ last.persisted

\* the cooldown had elapsed when the last step began
CooldownElapsed == last.now - last.lst_before >= cooldown_sec

\* the last step appended a signal to the log
SignalLogged == last.out = "signal"

LastLevel == IF Len(signals) = 0 THEN "NONE" ELSE signals[Len(signals)].level

\* the store satisfies a primary rule / the pullback rule
PrimaryMatches ==
    /\ Len(price_avg) >= MIN_POINTS
    /\ Len(oi_avg) > window
    /\ ~PrimaryRaises(State)
    /\ PrimaryLevel(State) # "NONE"

PullbackMatches ==
    /\ Len(price_avg) >= PULLBACK_MIN_POINTS
    /\ ~PullbackRaises(State)
    /\ PullbackLevel(State) # "NONE"

\* C1: in a live cycle with the cooldown elapsed and data that satisfy a
\* primary rule and the pullback rule, the signal logged is the pullback one
C1_PullbackTakesPrecedence ==
    (EvaluatedCycle /\ CooldownElapsed /\ PrimaryMatches /\ PullbackMatches)
        => (SignalLogged /\ LastLevel = PullbackLevel(State))

\* C2: an evaluation made less than cooldown_sec after the last emission logs
\* no signal, and any two signals of the log were emitted at clock readings
\* at least cooldown_sec apart
C2_Cooldown ==
    /\ Len(emit_clock) = Len(signals)
    /\ \A i, j \in 1..Len(emit_clock) :
          i < j => emit_clock[j] - emit_clock[i] >= cooldown_sec
    /\ (last.kind \in {"cycle", "replay"} /\ ~CooldownElapsed) => ~SignalLogged

\* two signals are in the log and the last cycle met matching data inside
\* the cooldown
C2_Witness ==
    /\ Len(signals) >= 2
    /\ EvaluatedCycle
    /\ ~CooldownElapsed
    /\ PrimaryMatches
    /\ ~SignalLogged

\* the data of the strong short rule, on a store of at least MIN_POINTS
\* points: the earlier level of open interest and the trailing VWAP are those
\* of the trailing window, as far as it is filled
StrongShortData ==
    /\ Len(price_avg) >= MIN_POINTS
    /\ LET oi_then == LastN(oi_avg, window)[1]
           vwap == mean(LastN(price_avg, window))
       IN /\ funding_avg[Len(funding_avg)] <= funding_strong
          /\ oi_then > 0
          /\ vwap.num > 0
          /\ (oi_avg[Len(oi_avg)] - oi_then) * RATIO_DEN <= oi_drop_pct * oi_then
          /\ (price_avg[Len(price_avg)] * vwap.den - vwap.num) * RATIO_DEN
                <= price_break_pct * vwap.num

\* C3: with at least 60 points and the cooldown elapsed, data of the strong
\* short rule emit STRONG_SHORT, and a re-evaluation inside the cooldown
\* emits nothing
C3_StrongShortFromSixtyPoints ==
    /\ (EvaluatedCycle /\ CooldownElapsed /\ StrongShortData)
          => (SignalLogged /\ LastLevel = "STRONG_SHORT")
    /\ (EvaluatedCycle /\ ~CooldownElapsed) => ~SignalLogged

\* load_history has returned in a process that was started again
Replayed == before.valid /\ pc = "live" /\ last.kind \in {"boot", "replay"}

\* a restart has ended: load_history returned or raised
RestartEnded ==
    before.valid /\ pc \in {"live", "dead"} /\ last.kind \in {"boot", "replay"}

\* C4: the replay of a log of well-formed records yields the signal log the
\* live cycles that wrote those records produced (stated here for the
\* replays that return)
C4_ReplaySameSignals ==
    (Replayed /\ before.unsaved = 0) => signals = before.signals

\* C5: the replay of a log of well-formed records yields the Series Store of
\* the live cycles that wrote those records, of length N below capacity
C5_ReplaySameStore ==
    (RestartEnded /\ before.unsaved = 0)
        => /\ pc = "live"
           /\ ts = before.state.ts
           /\ price_avg = before.state.price_avg
           /\ funding_avg = before.state.funding_avg
           /\ oi_avg = before.state.oi_avg
           /\ price_ex = before.state.price_ex
           /\ funding_ex = before.state.funding_ex
           /\ oi_ex = before.state.oi_ex
           /\ Len(ts) = Min(Len(disk), MAX_POINTS)

\* C6: ts and the three avg sequences have one length, and below capacity a
\* cycle or replayed record with at least one exchange adds one to it
C6_AvgLengths ==
    /\ Len(price_avg) = Len(ts)
    /\ Len(funding_avg) = Len(ts)
    /\ Len(oi_avg) = Len(ts)
    /\ (/\ last.kind \in {"cycle", "replay"}
        /\ last.up # {}
        /\ ~(last.kind = "replay" /\ last.out = "raise")
        /\ last.len_before < MAX_POINTS)
          => Len(ts) = last.len_before + 1

\* a cycle in which only some exchanges answered has appended a point, and a
\* restarted process has replayed a record
C6_Witness ==
    /\ before.valid
    /\ last.kind = "replay"
    /\ last.up = {"binance", "bybit"}
    /\ Len(ts) = last.len_before + 1
    /\ Len(ts) > 1

\* q2 is q without its oldest entry and with one entry more
Shifted(q, q2) ==
    /\ Len(q2) = Len(q)
    /\ \A k \in 1..(Len(q) - 1) : q2[k] = q[k + 1]

\* q2 is q with one entry more
Grown(q, q2) ==
    /\ Len(q2) = Len(q) + 1
    /\ \A k \in 1..Len(q) : q2[k] = q[k]

\* this step is an append of a snapshot to the store
AcceptedAppend ==
    /\ last'.kind \in {"cycle", "replay"}
    /\ last'.up # {}
    /\ ~(last'.kind = "replay" /\ last'.out = "raise")

AvgShifted ==
    /\ Shifted(ts, ts')
    /\ Shifted(price_avg, price_avg')
    /\ Shifted(funding_avg, funding_avg')
    /\ Shifted(oi_avg, oi_avg')

\* C7, as claimed: at the maximum point count one more accepted append drops
\* the oldest entry of every sequence, the per-exchange ones included
C7_EverySequenceEvicts ==
    [][(Len(ts) = MAX_POINTS /\ AcceptedAppend)
          => /\ AvgShifted
             /\ \A ex \in EXCHANGE_FUNCS :
                   /\ Shifted(price_ex[ex], price_ex'[ex])
                   /\ Shifted(funding_ex[ex], funding_ex'[ex])
                   /\ Shifted(oi_ex[ex], oi_ex'[ex])]_vars

\* how one per-exchange sequence changes in an accepted append
ExStep(q, q2, ex) ==
    /\ Len(q2) <= MAX_POINTS
    /\ IF ex \notin last'.up THEN q2 = q
       ELSE IF Len(q) = MAX_POINTS THEN Shifted(q, q2)
       ELSE Grown(q, q2)

\* C7, amended: ts and the avg sequences evict in lockstep; a per-exchange
\* sequence drops its oldest entry only when its exchange answered and the
\* sequence itself is full; no sequence exceeds the maximum
C7_AvgSequencesEvict ==
    [][/\ Len(ts') <= MAX_POINTS
       /\ AcceptedAppend =>
             /\ Len(ts) = MAX_POINTS => AvgShifted
             /\ \A ex \in EXCHANGE_FUNCS :
                   /\ ExStep(price_ex[ex], price_ex'[ex], ex)
                   /\ ExStep(funding_ex[ex], funding_ex'[ex], ex)
                   /\ ExStep(oi_ex[ex], oi_ex'[ex], ex)]_vars

\* the store was full, and a cycle in which only some exchanges answered
\* has appended a point and evicted the oldest
C7_Witness ==
    /\ Len(ts) = MAX_POINTS
    /\ ts[1] > START_CLOCK
    /\ last.kind = "cycle"
    /\ last.len_before = MAX_POINTS
    /\ last.up # {}
    /\ last.up # EXCHANGE_FUNCS

\* C8: no rule evaluation raises, whatever the store holds
C8_EvaluationNeverRaises ==
    last.kind = "cycle" => last.out # "raise"

\* a line load_history can replay
WellFormed(l) == l.kind = "json" /\ ~RowRaises(l.doc)

\* C9: load_history skips the malformed records of the log and returns a
\* store with one entry for each well-formed record, in order
C9_MalformedRecordsSkipped ==
    LET good == SelectSeq(disk, WellFormed)
    IN (cycles = 0 /\ last.kind \in {"boot", "replay"} /\ pc # "replay")
          => /\ pc = "live"
             /\ ts = [k \in 1..Len(good) |-> RowTs(good[k].doc)]
             /\ Len(price_avg) = Len(good)

\* C10: a cycle in which every exchange call fails changes nothing of the
\* symbol's state and persists nothing
C10_FailedCycleChangesNothing ==
    [][(last'.kind = "cycle" /\ last'.up = {})
          => UNCHANGED <<store, signals, last_signal_ts, disk>>]_vars

\* a cycle in which nothing answered, on a store that holds points
C10_Witness ==
    /\ last.kind = "cycle"
    /\ last.up = {}
    /\ Len(ts) >= MoveEvery
    /\ Len(disk) = Len(ts)

\* the point signal number i fired on is still in the store
Retained(i) == \E k \in 1..Len(ts) : ts[k] = signals[i].ts

\* C11: while the point a signal fired on is retained, the signal's index is
\* the position of that point: ts[index] is the signal's ts and
\* price_avg[index] is its price, also after evictions at capacity
C11_IndexTracksPoint ==
    \A i \in 1..Len(signals) :
        Retained(i) =>
            /\ signals[i].index + 1 <= Len(ts)
            /\ ts[signals[i].index + 1] = signals[i].ts
            /\ price_avg[signals[i].index + 1] = signals[i].price

\* api_state has returned a response for a range that covers the whole store
ApiReturned == api.pc = API_READS + 1

WholeStoreAsked == api.points >= MAX_POINTS

\* the four sequences of the response are those of one state of the store
ConsistentResponse ==
    /\ Len(api.resp.price_avg) = Len(api.resp.ts)
    /\ Len(api.resp.funding_avg) = Len(api.resp.ts)
    /\ Len(api.resp.oi_avg) = Len(api.resp.ts)

\* C12: a query concurrent with the collector returns ts, price_avg,
\* funding_avg and oi_avg that reflect the same number of completed appends,
\* and no step of the query changes a sequence, the signal log or the
\* cooldown value
C12_ConsistentSnapshot ==
    [][/\ (api' # api) => UNCHANGED <<store, signals, last_signal_ts>>
       /\ (ApiReturned' /\ WholeStoreAsked') => ConsistentResponse']_vars

\* the k most recent entries of xs, for k <= Len(xs)
MostRecent(xs, k) == SubSeq(xs, Len(xs) - k + 1, Len(xs))

\* what the claim says slice_deque(dq, n) returns
Sliced(dq, n) == MostRecent(dq, Min(n, Len(dq)))

\* C13: for every sequence and every count n >= 0 that api_state computes,
\* slice_deque returns exactly the most recent min(n, length) entries, in
\* order: nothing for n = 0, the whole sequence only for n >= length
C13_SliceReturnsLastN ==
    api.pc > 4 =>
        /\ api.resp.ts = Sliced(ts, api.points)
        /\ api.resp.price_avg = Sliced(price_avg, api.points)
        /\ api.resp.funding_avg = Sliced(funding_avg, api.points)
        /\ api.resp.oi_avg = Sliced(oi_avg, api.points)

\* this step ends a live poll cycle
CycleEnds == last'.kind = "cycle" /\ cycles' = cycles + 1

\* C14: in every poll cycle last_signal_ts changes if and only if exactly one
\* signal is appended to the log in that cycle
C14_CooldownClockFollowsLog ==
    [][CycleEnds =>
          /\ (last_signal_ts' # last_signal_ts)
                 <=> (Len(signals') = Len(signals) + 1)
          /\ Len(signals') \in {Len(signals), Len(signals) + 1}]_vars

\* the last step was a live cycle that appended a point to the store
AppendedCycle == last.kind = "cycle" /\ last.up # {}

\* C15: every live cycle that appends a point evaluates the rule engine on
\* the store including that point, before the next cycle appends
C15_AppendedPointEvaluated ==
    AppendedCycle =>
        /\ EvaluatedCycle
        /\ Len(ts) = Min(last.len_before + 1, MAX_POINTS)

RECURSIVE Total(_, _, _)
\* the sum of one metric over the exchanges exs, as the market m reports it
Total(exs, m, key) ==
    IF exs = {} THEN 0
    ELSE LET ex == CHOOSE e \in exs : TRUE
         IN MARKET[m][ex][key] + Total(exs \ {ex}, m, key)

\* q2 is q with one entry more, and that entry is the mean of the metric over
\* the exchanges exs
GrownByMean(q, q2, exs, m, key) ==
    /\ Grown(q, q2)
    /\ q2[Len(q2)] * Cardinality(exs) = Total(exs, m, key)

\* q2 is q with one entry more, the reading v
GrownBy(q, q2, v) == Grown(q, q2) /\ q2[Len(q2)] = v

\* C17: in a cycle where some exchanges fail and at least one answers, each
\* avg sequence gets exactly one entry, the mean of the metric over the
\* exchanges that answered; the sequences of those exchanges grow by one
\* entry each and the sequences of the failed exchanges do not change
C17_PartialFailureIsLocal ==
    [][(CycleEnds /\ last'.up # {} /\ last'.up # EXCHANGE_FUNCS
           /\ Len(ts) < MAX_POINTS) =>
          /\ GrownByMean(price_avg, price_avg', last'.up, mkt', "price")
          /\ GrownByMean(funding_avg, funding_avg', last'.up, mkt', "funding")
          /\ GrownByMean(oi_avg, oi_avg', last'.up, mkt', "oi")
          /\ \A ex \in last'.up :
                /\ GrownBy(price_ex[ex], price_ex'[ex], MARKET[mkt'][ex].price)
                /\ GrownBy(funding_ex[ex], funding_ex'[ex], MARKET[mkt'][ex].funding)
                /\ GrownBy(oi_ex[ex], oi_ex'[ex], MARKET[mkt'][ex].oi)
          /\ \A ex \in EXCHANGE_FUNCS \ last'.up :
                /\ price_ex'[ex] = price_ex[ex]
                /\ funding_ex'[ex] = funding_ex[ex]
                /\ oi_ex'[ex] = oi_ex[ex]]_vars

\* two of the four exchanges answered in the last cycle, on a store that
\* already held points: the avg sequences are longer than okx's
C17_Witness ==
    /\ last.kind = "cycle"
    /\ last.up = {"binance", "bybit"}
    /\ last.len_before >= MoveEvery
    /\ Len(price_avg) = last.len_before + 1
    /\ Len(price_ex["okx"]) = last.len_before
    /\ Len(price_ex["bybit"]) = last.len_before + 1

\* the data of the strong long rule, the mirror image of StrongShortData
StrongLongData ==
    /\ Len(price_avg) >= MIN_POINTS
    /\ LET oi_then == LastN(oi_avg, window)[1]
           vwap == mean(LastN(price_avg, window))
       IN /\ funding_avg[Len(funding_avg)] >= 0 - funding_strong
          /\ oi_then > 0
          /\ vwap.num > 0
          /\ (oi_avg[Len(oi_avg)] - oi_then) * RATIO_DEN
                >= (0 - oi_drop_pct) * oi_then
          /\ (price_avg[Len(price_avg)] * vwap.den - vwap.num) * RATIO_DEN
                >= (0 - price_break_pct) * vwap.num

\* this step is a rule evaluation, in a live cycle or in the replay
Evaluation == last'.kind \in {"cycle", "replay"}

\* C18: first match wins: an evaluation logs at most one signal, and a
\* PREPARE_SHORT or PREPARE_LONG is logged only when the data satisfy neither
\* the STRONG_SHORT nor the STRONG_LONG conditions
C18_FirstMatchWins ==
    [][Evaluation =>
          /\ \/ signals' = signals
             \/ /\ Len(signals') = Len(signals) + 1
                /\ SubSeq(signals', 1, Len(signals)) = signals
          /\ (/\ Len(signals') = Len(signals) + 1
              /\ signals'[Len(signals')].level \in {"PREPARE_SHORT", "PREPARE_LONG"})
                => (~StrongShortData' /\ ~StrongLongData')]_vars

\* a live cycle has logged PREPARE_SHORT after a STRONG_SHORT of an earlier
\* cycle
C18_Witness ==
    /\ last.kind = "cycle"
    /\ SignalLogged
    /\ LastLevel = "PREPARE_SHORT"
    /\ Len(signals) >= 2
    /\ signals[1].level = "STRONG_SHORT"

\* the seconds between the latest point and the k-th latest of a full window
Span(k) == ts[Len(ts)] - At(ts, k)

\* the store's latest points were recorded by consecutive live cycles
LiveRun(k) ==
    /\ last.kind = "cycle"
    /\ Len(ts) >= k
    /\ \A i \in (Len(ts) - k + 2)..Len(ts) : ts[i] - ts[i - 1] = SLEEP_SEC

\* C19: the lookback window covers 30 minutes of polling: its point count is
\* floor(1800 / delay between cycles) and the point a window ago was recorded
\* about 1800 seconds before the latest one; likewise the pullback window
\* covers 600 seconds
C19_WindowCoversThirtyMinutes ==
    /\ LiveRun(window) =>
          (/\ window = WINDOW_SEC \div SLEEP_SEC
           /\ Span(window) <= WINDOW_SEC
           /\ Span(window) >= WINDOW_SEC - SLEEP_SEC)
    /\ LiveRun(short_window) =>
          (/\ short_window = SHORT_WINDOW_SEC \div SLEEP_SEC
           /\ Span(short_window) <= SHORT_WINDOW_SEC
           /\ Span(short_window) >= SHORT_WINDOW_SEC - SLEEP_SEC)

\* C20: the records written to the log since startup are the snapshots
\* accepted into the store, one record per appended point and in the same
\* order: a live cycle that appends a point appends its record to the log
\* and no appended point is left without one
C20_LogMatchesStore ==
    [][(CycleEnds /\ last'.up # {}) =>
          /\ Len(disk') = Len(disk) + 1
          /\ SubSeq(disk', 1, Len(disk)) = disk
          /\ disk'[Len(disk')] =
                dumps([ts |-> ts'[Len(ts')], symbol |-> SYMBOL,
                       data |-> [ex \in last'.up |-> MARKET[mkt'][ex]]])
          /\ unsaved' = 0]_vars

====
